---- MODULE Spec2Model ----
(***************************************************************************)
(* A model of the Python3 ANTLR runtime's parse-tree construction          *)
(* (ParserRuleContext), tree walk (ParseTreeWalker) and automaton          *)
(* configurations (ATNConfig, LexerATNConfig).                             *)
(*                                                                         *)
(* Seven specifications share the variables:                               *)
(*   Spec        rule contexts are built, mutated, copied and queried      *)
(*   SpecToken   child sequences are appended to and looked up by token    *)
(*   SpecWalk    a tree is built and walked by ParseTreeWalker             *)
(*   SpecFind    a tree is built and searched by Trees.findAll...Nodes     *)
(*   SpecCopy    rule contexts with parent, invoking state, start and stop *)
(*               are built and copied with copyFrom                        *)
(*   SpecConfig  a configuration is constructed, copied with overrides and *)
(*               mutated by the simulator                                  *)
(*   SpecEq      equality and hashing applied to a pair of configurations  *)
(***************************************************************************)
EXTENDS Integers, Sequences, FiniteSets, TLC

VARIABLES
    ctxs,     \* the ParserRuleContext objects, by identity (index)
    terms,    \* the TerminalNodeImpl / ErrorNodeImpl objects, by identity
    last,     \* the last operation on the tree: arguments, outcome, pre-state
    stack,    \* ParseTreeWalker.walk: the recursion's frames, innermost last
    events,   \* the listener's record of the calls it received
    cfg,      \* SpecConfig: the configuration constructed last
    call,     \* SpecConfig: the constructor call that built cfg
    pair,     \* SpecEq: two configurations
    cmp       \* SpecEq: the results of comparing and hashing the pair

treeVars == <<ctxs, terms, last, stack, events>>
cfgVars == <<cfg, call, pair, cmp>>
vars == <<ctxs, terms, last, stack, events, cfg, call, pair, cmp>>

(***************************************************************************)
(* Bounds                                                                  *)
(***************************************************************************)
MaxCtx == 2          \* rule contexts constructed
MaxTerm == 2         \* terminal and error nodes constructed
MaxOuter == 1        \* cap of reachesIntoOuterContext

\* Python's None, for references and optional integers
None == 0

TokenTypes == {1, 2}         \* a token is identified with its type
SpanTokens == {1}            \* the one token type where the type is not read
InvokingStates == {-1, 5}    \* invokingStateNumber arguments
RuleIndexes == {1, 2}        \* ruleIndex arguments

Range(s) == {s[k] : k \in DOMAIN s}

(***************************************************************************)
(* Tree node model (tree/Tree.py)                                          *)
(***************************************************************************)
\* A reference to a tree node: a rule context or a terminal/error node.
RuleRef(n) == [rule |-> TRUE, id |-> n]
TermRef(t) == [rule |-> FALSE, id |-> t]

\* None where a node is expected
NoneRef == [rule |-> FALSE, id |-> None]

CtxIds == 1..Len(ctxs)
TermIds == 1..Len(terms)

\* isinstance(child, TerminalNode): TerminalNodeImpl and ErrorNodeImpl both
isTerminalNode(ref) == ~ref.rule

\* isinstance(child, ErrorNode) / isinstance(child, ErrorNodeImpl)
isErrorNode(ref) == ~ref.rule /\ terms[ref.id].error

\* isinstance(tree, RuleNode)
isRuleNode(ref) == ref.rule

\* TerminalNodeImpl.__init__ / ErrorNodeImpl.__init__
TerminalNodeImpl(symbol) == [error |-> FALSE, symbol |-> symbol, parentCtx |-> None]
ErrorNodeImpl(token) == [error |-> TRUE, symbol |-> token, parentCtx |-> None]

(***************************************************************************)
(* ParserRuleContext                                                       *)
(***************************************************************************)
\* ParserRuleContext.__init__: children is None (allocated = FALSE).  The
\* class sets no ruleIndex attribute (ruleIndex None, never read: see
\* hasRuleIndex).
ParserRuleContext(parent, invokingStateNumber) ==
    [cls |-> "ParserRuleContext", ruleIndex |-> None,
     parentCtx |-> parent, invokingState |-> invokingStateNumber,
     allocated |-> FALSE, children |-> <<>>,
     start |-> None, stop |-> None]

\* InterpreterRuleContext.__init__: a ParserRuleContext with self.ruleIndex
InterpreterRuleContext(parent, invokingStateNumber, ruleIndex) ==
    [ParserRuleContext(parent, invokingStateNumber) EXCEPT
        !.cls = "InterpreterRuleContext", !.ruleIndex = ruleIndex]

\* whether reading c.ruleIndex finds the attribute
hasRuleIndex(c) == c.cls = "InterpreterRuleContext"

\* getChildren(): yields the children, nothing when children is None
getChildren(c) == IF c.allocated THEN c.children ELSE <<>>

\* getChildCount()
getChildCount(c) == IF c.allocated /\ c.children # <<>> THEN Len(c.children) ELSE 0

\* Fillers of an operation record's unused fields
NoCtx == ParserRuleContext(None, -1)

\* The record of an operation: what was called, whether it raised, what it
\* returned, and the receiver and argument objects as they were before.
Op(name, n, arg, idx, raised, result, self0, src0) ==
    [op |-> name, self |-> n, arg |-> arg, idx |-> idx, raised |-> raised,
     result |-> result, self0 |-> self0, src0 |-> src0]

\* Construction steps leave no record: only the operations whose outcome is
\* examined do.
NoOp == Op("none", None, None, 0, "no", NoneRef, NoCtx, NoCtx)

\* A walk and a lookup are the last step of a behaviour: neither changes the
\* tree, so the trees that could follow one are the trees that precede it.
Building ==
    /\ stack = <<>>
    /\ last.op \notin {"walk", "getToken", "getChild",
                       "findAllRuleNodes", "findAllTokenNodes"}

\* ParserRuleContext(parent, invokingStateNumber)
NewCtx(parent, inv) ==
    /\ Building
    /\ Len(ctxs) < MaxCtx
    /\ ctxs' = Append(ctxs, ParserRuleContext(parent, inv))
    /\ last' = NoOp
    /\ UNCHANGED <<terms, stack, events, cfgVars>>

\* InterpreterRuleContext(parent, invokingStateNumber, ruleIndex)
NewInterpreterCtx(parent, inv, ruleIndex) ==
    /\ Building
    /\ Len(ctxs) < MaxCtx
    /\ ctxs' = Append(ctxs, InterpreterRuleContext(parent, inv, ruleIndex))
    /\ last' = NoOp
    /\ UNCHANGED <<terms, stack, events, cfgVars>>

\* ctx.start = token, assigned by the parser on entering the rule
SetStart(n, tok) ==
    /\ Building
    /\ ctxs[n].start = None
    /\ ctxs' = [ctxs EXCEPT ![n].start = tok]
    /\ last' = NoOp
    /\ UNCHANGED <<terms, stack, events, cfgVars>>

\* ctx.stop = token, assigned by the parser on leaving the rule
SetStop(n, tok) ==
    /\ Building
    /\ ctxs[n].stop = None
    /\ ctxs' = [ctxs EXCEPT ![n].stop = tok]
    /\ last' = NoOp
    /\ UNCHANGED <<terms, stack, events, cfgVars>>

\* addChild(child): the body shared by the add methods
addChild(c, ref) == [c EXCEPT !.allocated = TRUE, !.children = Append(c.children, ref)]

\* addChild(child) with a rule context as the child; a context is added
\* below one constructed before it, so the tree stays finite
AddChild(n, child) ==
    /\ Building
    /\ n < child
    /\ RuleRef(child) \notin Range(ctxs[n].children)
    /\ ctxs' = [ctxs EXCEPT ![n] = addChild(@, RuleRef(child))]
    /\ last' = NoOp
    /\ UNCHANGED <<terms, stack, events, cfgVars>>

\* addTokenNode(token)
AddTokenNode(n, token) ==
    /\ Building
    /\ Len(terms) < MaxTerm
    /\ LET t == Len(terms) + 1 IN
        /\ terms' = Append(terms, [TerminalNodeImpl(token) EXCEPT !.parentCtx = n])
        /\ ctxs' = [ctxs EXCEPT ![n] = addChild(@, TermRef(t))]
        /\ last' = NoOp
    /\ UNCHANGED <<stack, events, cfgVars>>

\* addErrorNode(badToken)
AddErrorNode(n, badToken) ==
    /\ Building
    /\ Len(terms) < MaxTerm
    /\ LET t == Len(terms) + 1 IN
        /\ terms' = Append(terms, [ErrorNodeImpl(badToken) EXCEPT !.parentCtx = n])
        /\ ctxs' = [ctxs EXCEPT ![n] = addChild(@, TermRef(t))]
        /\ last' = NoOp
    /\ UNCHANGED <<stack, events, cfgVars>>

\* removeLastChild(): del self.children[len(self.children) - 1] raises
\* IndexError on an empty list (index -1 of no element)
removeLastChildRaises(c) == c.allocated /\ Len(c.children) = 0

removeLastChild(c) ==
    IF c.allocated
    THEN [c EXCEPT !.children = SubSeq(c.children, 1, Len(c.children) - 1)]
    ELSE c

RemoveLastChild(n) ==
    /\ Building
    /\ IF removeLastChildRaises(ctxs[n])
       THEN /\ last' = Op("removeLastChild", n, None, 0, "IndexError", NoneRef, ctxs[n], NoCtx)
            /\ UNCHANGED ctxs
       ELSE /\ ctxs' = [ctxs EXCEPT ![n] = removeLastChild(@)]
            /\ last' = Op("removeLastChild", n, None, 0, "no", NoneRef, ctxs[n], NoCtx)
    /\ UNCHANGED <<terms, stack, events, cfgVars>>


\* a copyFrom that copies every child of ctx
copyFromChildren_All(n, src) ==
    IF src # n /\ ctxs[src].allocated THEN ctxs[src].children ELSE <<>>

\* copyFrom(ctx).  self.children is set to None before ctx.children is read,
\* so a context copied from itself finds no children to copy.
copyFromChildren(n, src) ==
    IF src # n /\ ctxs[src].allocated
    THEN SelectSeq(ctxs[src].children, isErrorNode)
    ELSE <<>>

copyFromAllocated(n, src) == src # n /\ ctxs[src].allocated

copyFrom(n, src) ==
    [cls |-> ctxs[n].cls,
     ruleIndex |-> ctxs[n].ruleIndex,
     parentCtx |-> ctxs[src].parentCtx,
     invokingState |-> ctxs[src].invokingState,
     allocated |-> copyFromAllocated(n, src),
     children |-> copyFromChildren(n, src),
     start |-> ctxs[src].start,
     stop |-> ctxs[src].stop]

\* child.parentCtx = self, for each child appended
copyFromReparent(n, src) ==
    [t \in DOMAIN terms |->
        IF TermRef(t) \in Range(copyFromChildren(n, src))
        THEN [terms[t] EXCEPT !.parentCtx = n]
        ELSE terms[t]]

CopyFrom(n, src) ==
    /\ Building
    /\ ctxs' = [ctxs EXCEPT ![n] = copyFrom(n, src)]
    /\ terms' = copyFromReparent(n, src)
    /\ last' = Op("copyFrom", n, src, 0, "no", NoneRef, ctxs[n], ctxs[src])
    /\ UNCHANGED <<stack, events, cfgVars>>

\* getToken(ttype, i): the loop over getChildren(), from child k on
RECURSIVE getTokenLoop(_, _, _, _)
getTokenLoop(children, k, ttype, i) ==
    IF k > Len(children) THEN NoneRef
    ELSE LET child == children[k] IN
         IF ~isTerminalNode(child)
         THEN getTokenLoop(children, k + 1, ttype, i)
         ELSE IF terms[child.id].symbol = None \/ terms[child.id].symbol # ttype
         THEN getTokenLoop(children, k + 1, ttype, i)
         ELSE IF i = 0 THEN child
         ELSE getTokenLoop(children, k + 1, ttype, i - 1)

\* a getToken that returns the first match whatever i is
getToken_FirstMatch(c, ttype, i) == getTokenLoop(getChildren(c), 1, ttype, 0)

getToken(c, ttype, i) == getTokenLoop(getChildren(c), 1, ttype, i)

GetToken(n, ttype, i) ==
    /\ Building
    /\ last' = Op("getToken", n, ttype, i, "no", getToken(ctxs[n], ttype, i), NoCtx, NoCtx)
    /\ UNCHANGED <<ctxs, terms, stack, events, cfgVars>>

\* The types getChild is asked to filter by; "None" is the omitted ttype.
ChildTypes == {"None", "TerminalNode", "ErrorNode", "ParserRuleContext"}

\* isinstance(child, ttype)
isinstance(ref, ttype) ==
    CASE ttype = "TerminalNode" -> isTerminalNode(ref)
      [] ttype = "ErrorNode" -> isErrorNode(ref)
      [] ttype = "ParserRuleContext" -> isRuleNode(ref)

\* the loop of getChild over getChildren(): children[k..], i matches still
\* to pass
RECURSIVE getChildLoop(_, _, _, _)
getChildLoop(children, k, ttype, i) ==
    IF k > Len(children) THEN NoneRef
    ELSE IF ~isinstance(children[k], ttype) THEN getChildLoop(children, k + 1, ttype, i)
    ELSE IF i = 0 THEN children[k]
    ELSE getChildLoop(children, k + 1, ttype, i - 1)

\* `assert self.children`: fails when children is None and when it is []
getChildRaises(c) == ~c.allocated \/ c.children = <<>>

\* getChild(i, ttype) past the assertion
getChild(c, i, ttype) ==
    IF ttype = "None"
    THEN IF Len(c.children) > i THEN c.children[i + 1] ELSE NoneRef
    ELSE getChildLoop(getChildren(c), 1, ttype, i)

GetChild(n, i, ttype) ==
    /\ Building
    /\ last' = IF getChildRaises(ctxs[n])
               THEN Op("getChild", n, ttype, i, "AssertionError", NoneRef, NoCtx, NoCtx)
               ELSE Op("getChild", n, ttype, i, "no", getChild(ctxs[n], i, ttype),
                       NoCtx, NoCtx)
    /\ UNCHANGED <<ctxs, terms, stack, events, cfgVars>>

(***************************************************************************)
(* ParseTreeWalker (tree/Tree.py)                                          *)
(***************************************************************************)
Event(name, ref) == [name |-> name, node |-> ref]

\* A frame of walk(listener, tree): pc "walk" at entry, "children" inside
\* the loop over tree.getChildren(), i the next child to walk
Frame(ref) == [tree |-> ref, pc |-> "walk", i |-> 1]

Top == stack[Len(stack)]
Pop == SubSeq(stack, 1, Len(stack) - 1)

\* an enterRule that sends the rule-specific event first
enterRule_SpecificFirst(r) == <<Event("enterRule", r), Event("enterEveryRule", r)>>

\* ParseTreeWalker.enterRule: the generic event, then the rule-specific one
enterRule(r) == <<Event("enterEveryRule", r), Event("enterRule", r)>>

\* an exitRule that forgets the generic event
exitRule_NoGeneric(r) == <<Event("exitRule", r)>>

\* ParseTreeWalker.exitRule: the rule-specific event, then the generic one
exitRule(r) == <<Event("exitRule", r), Event("exitEveryRule", r)>>

\* a client calls walk(listener, tree) with a listener that has seen nothing
WalkBegin(ref) ==
    /\ stack = <<>>
    /\ last.op # "walk"
    /\ stack' = <<Frame(ref)>>
    /\ events' = <<>>
    /\ last' = Op("walk", None, None, 0, "no", ref, NoCtx, NoCtx)
    /\ UNCHANGED <<ctxs, terms, cfgVars>>

\* if isinstance(tree, ErrorNode): listener.visitErrorNode(tree); return
WalkErrorNode ==
    /\ stack # <<>>
    /\ Top.pc = "walk"
    /\ isErrorNode(Top.tree)
    /\ events' = Append(events, Event("visitErrorNode", Top.tree))
    /\ stack' = Pop
    /\ UNCHANGED <<ctxs, terms, last, cfgVars>>

\* elif isinstance(tree, TerminalNode): listener.visitTerminal(tree); return
WalkTerminal ==
    /\ stack # <<>>
    /\ Top.pc = "walk"
    /\ ~isErrorNode(Top.tree)
    /\ isTerminalNode(Top.tree)
    /\ events' = Append(events, Event("visitTerminal", Top.tree))
    /\ stack' = Pop
    /\ UNCHANGED <<ctxs, terms, last, cfgVars>>

\* self.enterRule(listener, tree)
WalkEnterRule ==
    /\ stack # <<>>
    /\ Top.pc = "walk"
    /\ ~isErrorNode(Top.tree)
    /\ ~isTerminalNode(Top.tree)
    /\ isRuleNode(Top.tree)
    /\ events' = events \o enterRule(Top.tree)
    /\ stack' = [stack EXCEPT ![Len(stack)].pc = "children"]
    /\ UNCHANGED <<ctxs, terms, last, cfgVars>>

\* for child in tree.getChildren(): self.walk(listener, child)
WalkChild ==
    /\ stack # <<>>
    /\ Top.pc = "children"
    /\ Top.i <= Len(getChildren(ctxs[Top.tree.id]))
    /\ stack' = Append([stack EXCEPT ![Len(stack)].i = @ + 1],
                       Frame(getChildren(ctxs[Top.tree.id])[Top.i]))
    /\ UNCHANGED <<ctxs, terms, last, events, cfgVars>>

\* self.exitRule(listener, tree), the loop being over
WalkExitRule ==
    /\ stack # <<>>
    /\ Top.pc = "children"
    /\ Top.i > Len(getChildren(ctxs[Top.tree.id]))
    /\ events' = events \o exitRule(Top.tree)
    /\ stack' = Pop
    /\ UNCHANGED <<ctxs, terms, last, cfgVars>>

Walked == last.op = "walk" /\ stack = <<>>

AllRefs == {RuleRef(n) : n \in CtxIds} \cup {TermRef(t) : t \in TermIds}

(***************************************************************************)
(* Trees (tree/Trees.py)                                                   *)
(***************************************************************************)
\* tree.getChildCount(): 0 for a terminal node
Tree_getChildCount(tree) == IF tree.rule THEN getChildCount(ctxs[tree.id]) ELSE 0

\* The state of a collection: the nodes appended so far, and the exception
\* that ended it, if one did
Found(raised, nodes) == [raised |-> raised, nodes |-> nodes]

\* _findAllNodes(tree, index, findTokens, nodes): the root is checked first,
\* then the children from getChild(0) to getChild(getChildCount() - 1).  An
\* exception ends the whole collection.
RECURSIVE Trees_findAllNodes(_, _, _, _), Trees_findAllNodesChildren(_, _, _, _, _)
Trees_findAllNodes(tree, index, findTokens, found) ==
    LET checked ==
            IF findTokens /\ isTerminalNode(tree)
            THEN IF terms[tree.id].symbol # None /\ terms[tree.id].symbol = index
                 THEN Found("no", Append(found.nodes, tree))
                 ELSE found
            ELSE IF ~findTokens /\ isRuleNode(tree)
            THEN IF ~hasRuleIndex(ctxs[tree.id])
                 THEN Found("AttributeError", found.nodes)
                 ELSE IF ctxs[tree.id].ruleIndex = index
                 THEN Found("no", Append(found.nodes, tree))
                 ELSE found
            ELSE found
    IN IF checked.raised # "no" THEN checked
       ELSE Trees_findAllNodesChildren(tree, 0, index, findTokens, checked)

Trees_findAllNodesChildren(tree, i, index, findTokens, found) ==
    IF found.raised # "no" \/ i >= Tree_getChildCount(tree) THEN found
    ELSE Trees_findAllNodesChildren(tree, i + 1, index, findTokens,
             Trees_findAllNodes(getChild(ctxs[tree.id], i, "None"),
                                index, findTokens, found))

findAllNodes(tree, index, findTokens) ==
    Trees_findAllNodes(tree, index, findTokens, Found("no", <<>>))

findAllTokenNodes(tree, ttype) == findAllNodes(tree, ttype, TRUE)

findAllRuleNodes(tree, ruleIndex) == findAllNodes(tree, ruleIndex, FALSE)

FindAllTokenNodes(tree, ttype) ==
    /\ Building
    /\ LET found == findAllTokenNodes(tree, ttype)
       IN last' = Op("findAllTokenNodes", tree, ttype, 0, found.raised,
                     IF found.raised = "no" THEN found.nodes ELSE <<>>, NoCtx, NoCtx)
    /\ UNCHANGED <<ctxs, terms, stack, events, cfgVars>>

FindAllRuleNodes(tree, ruleIndex) ==
    /\ Building
    /\ LET found == findAllRuleNodes(tree, ruleIndex)
       IN last' = Op("findAllRuleNodes", tree, ruleIndex, 0, found.raised,
                     IF found.raised = "no" THEN found.nodes ELSE <<>>, NoCtx, NoCtx)
    /\ UNCHANGED <<ctxs, terms, stack, events, cfgVars>>

(***************************************************************************)
(* ATNConfig and LexerATNConfig (atn/ATNConfig.py)                         *)
(*                                                                         *)
(* The collaborators are modelled by what the configuration reads of them: *)
(* an ATN state by its stateNumber (1 a basic state, 2 a greedy decision   *)
(* state, 3 a non-greedy decision state); a prediction context by an       *)
(* identity and a value (== and hash go by the value); a semantic context  *)
(* and a lexer action executor by their value.  None is 0 throughout.      *)
(***************************************************************************)
ATNStates == {1, 2, 3}
Alts == {1, 2}
PredictionContext(id, value) == [id |-> id, value |-> value]
NoContext == PredictionContext(None, None)
\* two contexts that are different objects of equal value, and a third
Contexts == {PredictionContext(1, 1), PredictionContext(2, 1), PredictionContext(3, 2)}
\* SemanticContext.NONE, the shared sentinel
SemanticContext_NONE == 1
SemanticContexts == {SemanticContext_NONE, 2}
LexerActionExecutors == {1}

\* isinstance(target, DecisionState)
isDecisionState(target) == target \in {2, 3}
\* target.nonGreedy
nonGreedy(target) == target = 3

\* An ATNConfig or LexerATNConfig object.  A parser configuration has no
\* lexerActionExecutor and no passedThroughNonGreedyDecision: the two fields
\* are fillers there and are read of a lexer configuration only.
Config(cls, state, alt, context, semantic, outer, suppressed, executor, passed) ==
    [cls |-> cls, state |-> state, alt |-> alt, context |-> context,
     semanticContext |-> semantic, reachesIntoOuterContext |-> outer,
     precedenceFilterSuppressed |-> suppressed,
     lexerActionExecutor |-> executor, passedThroughNonGreedyDecision |-> passed]

\* config=None
NoConfig == Config("none", None, None, NoContext, None, 0, FALSE, None, FALSE)

\* an ATNConfig.__init__ that keeps the fresh defaults of the two counters
ATNConfig__init___NoCarry(state, alt, context, semantic, config) ==
    LET state1 == IF config # NoConfig /\ state = None THEN config.state ELSE state
        alt1 == IF config # NoConfig /\ alt = None THEN config.alt ELSE alt
        context1 == IF config # NoConfig /\ context = NoContext
                    THEN config.context ELSE context
        semantic1 == IF config # NoConfig /\ semantic = None
                     THEN config.semanticContext ELSE semantic
        semantic2 == IF semantic1 = None THEN SemanticContext_NONE ELSE semantic1
    IN Config("parser", state1, alt1, context1, semantic2, 0, FALSE, None, FALSE)

\* ATNConfig.__init__(state, alt, context, semantic, config)
ATNConfig__init__(state, alt, context, semantic, config) ==
    LET state1 == IF config # NoConfig /\ state = None THEN config.state ELSE state
        alt1 == IF config # NoConfig /\ alt = None THEN config.alt ELSE alt
        context1 == IF config # NoConfig /\ context = NoContext
                    THEN config.context ELSE context
        semantic1 == IF config # NoConfig /\ semantic = None
                     THEN config.semanticContext ELSE semantic
        semantic2 == IF semantic1 = None THEN SemanticContext_NONE ELSE semantic1
    IN Config("parser", state1, alt1, context1, semantic2,
              IF config = NoConfig THEN 0 ELSE config.reachesIntoOuterContext,
              IF config = NoConfig THEN FALSE ELSE config.precedenceFilterSuppressed,
              None, FALSE)

\* a checkNonGreedyDecision that looks at the target alone
checkNonGreedyDecision_TargetOnly(source, target) ==
    isDecisionState(target) /\ nonGreedy(target)

\* LexerATNConfig.checkNonGreedyDecision(source, target)
checkNonGreedyDecision(source, target) ==
    \/ source.passedThroughNonGreedyDecision
    \/ isDecisionState(target) /\ nonGreedy(target)

\* the value a parameter takes when the caller leaves it out
Omitted == -1
\* semantic: Optional[SemanticContext] = SemanticContext.NONE
LexerSemanticParameter(semantic) ==
    IF semantic = Omitted THEN SemanticContext_NONE ELSE semantic

\* LexerATNConfig.__init__(state, alt, context, semantic, lexerActionExecutor, config)
LexerATNConfig__init__(state, alt, context, semantic, lexerActionExecutor, config) ==
    LET base == ATNConfig__init__(state, alt, context,
                                  LexerSemanticParameter(semantic), config)
        executor == IF config # NoConfig /\ lexerActionExecutor = None
                    THEN config.lexerActionExecutor ELSE lexerActionExecutor
    IN [base EXCEPT !.cls = "lexer",
                    !.lexerActionExecutor = executor,
                    !.passedThroughNonGreedyDecision =
                        IF config = NoConfig THEN FALSE
                        ELSE checkNonGreedyDecision(config, state)]

\* The construction made last: its kind, and of the source configuration
\* whether it had passed through a non-greedy decision, and whether any
\* configuration of the chain of copies so far had.
Call(kind, sourcePassed, chainPassed) ==
    [kind |-> kind, sourcePassed |-> sourcePassed, chainPassed |-> chainPassed]
NoCall == Call("none", FALSE, FALSE)

\* ATNConfig(state, alt, context, semantic): a real configuration has a state
NewATNConfig(state, alt, context, semantic) ==
    /\ cfg' = ATNConfig__init__(state, alt, context, semantic, NoConfig)
    /\ call' = Call("ATNConfig", FALSE, FALSE)
    /\ UNCHANGED <<treeVars, pair, cmp>>

\* ATNConfig(..., config=cfg)
CopyATNConfig(state, alt, context, semantic) ==
    /\ cfg # NoConfig
    /\ cfg' = ATNConfig__init__(state, alt, context, semantic, cfg)
    /\ call' = Call("ATNConfig copy", FALSE, FALSE)
    /\ UNCHANGED <<treeVars, pair, cmp>>

\* LexerATNConfig(state, alt, context, semantic, lexerActionExecutor)
NewLexerATNConfig(state, alt, context, semantic, lexerActionExecutor) ==
    /\ cfg' = LexerATNConfig__init__(state, alt, context, semantic,
                                     lexerActionExecutor, NoConfig)
    /\ call' = Call("LexerATNConfig", FALSE, FALSE)
    /\ UNCHANGED <<treeVars, pair, cmp>>

\* LexerATNConfig(state, ..., config=cfg), cfg a LexerATNConfig
CopyLexerATNConfig(state, alt, context, semantic, lexerActionExecutor) ==
    /\ cfg.cls = "lexer"
    /\ cfg' = LexerATNConfig__init__(state, alt, context, semantic,
                                     lexerActionExecutor, cfg)
    /\ call' = Call("LexerATNConfig copy", cfg.passedThroughNonGreedyDecision,
                    call.chainPassed \/ cfg.passedThroughNonGreedyDecision)
    /\ UNCHANGED <<treeVars, pair, cmp>>

\* config.precedenceFilterSuppressed = True, assigned by the simulator
SetPrecedenceFilterSuppressed ==
    /\ cfg # NoConfig
    /\ ~cfg.precedenceFilterSuppressed
    /\ cfg' = [cfg EXCEPT !.precedenceFilterSuppressed = TRUE]
    /\ call' = [call EXCEPT !.kind = "assigned"]
    /\ UNCHANGED <<treeVars, pair, cmp>>

\* config.reachesIntoOuterContext += 1, by the simulator
IncReachesIntoOuterContext ==
    /\ cfg # NoConfig
    /\ cfg.reachesIntoOuterContext < MaxOuter
    /\ cfg' = [cfg EXCEPT !.reachesIntoOuterContext = @ + 1]
    /\ call' = [call EXCEPT !.kind = "assigned"]
    /\ UNCHANGED <<treeVars, pair, cmp>>

(***************************************************************************)
(* Equality and hashing.  A hash is modelled by the tuple it is computed   *)
(* from, each element replaced by its own hash: an integer or None by      *)
(* itself, a boolean by 0 or 1, a collaborator by its value.               *)
(***************************************************************************)
hashBool(b) == IF b THEN 1 ELSE 0

\* an ATNConfig.__eq__ that leaves the context out
ATNConfig__eq___NoContext(self, other, same) ==
    IF same THEN TRUE
    ELSE IF other.cls \notin {"parser", "lexer"} THEN FALSE
    ELSE /\ self.state = other.state
         /\ self.alt = other.alt
         /\ self.semanticContext = other.semanticContext
         /\ self.precedenceFilterSuppressed = other.precedenceFilterSuppressed

\* ATNConfig.__eq__(self, other); same: other is self
ATNConfig__eq__(self, other, same) ==
    IF same THEN TRUE
    ELSE IF other.cls \notin {"parser", "lexer"} THEN FALSE
    ELSE /\ self.state = other.state
         /\ self.alt = other.alt
         /\ \/ self.context.id = other.context.id
            \/ self.context.value = other.context.value
         /\ self.semanticContext = other.semanticContext
         /\ self.precedenceFilterSuppressed = other.precedenceFilterSuppressed

\* ATNConfig.__hash__
ATNConfig__hash__(self) ==
    <<self.state, self.alt, self.context.value, self.semanticContext>>

\* ATNConfig.hashCodeForConfigSet
ATNConfig_hashCodeForConfigSet(self) ==
    <<self.state, self.alt, self.semanticContext>>

\* ATNConfig.equalsForConfigSet
ATNConfig_equalsForConfigSet(self, other, same) ==
    IF same THEN TRUE
    ELSE IF other.cls \notin {"parser", "lexer"} THEN FALSE
    ELSE /\ self.state = other.state
         /\ self.alt = other.alt
         /\ self.semanticContext = other.semanticContext

\* LexerATNConfig.__hash__
LexerATNConfig__hash__(self) ==
    <<self.state, self.alt, self.context.value, self.semanticContext,
      hashBool(self.passedThroughNonGreedyDecision), self.lexerActionExecutor>>

\* LexerATNConfig.__eq__
LexerATNConfig__eq__(self, other, same) ==
    IF same THEN TRUE
    ELSE IF other.cls # "lexer" THEN FALSE
    ELSE IF self.passedThroughNonGreedyDecision # other.passedThroughNonGreedyDecision
    THEN FALSE
    ELSE IF ~(self.lexerActionExecutor = other.lexerActionExecutor) THEN FALSE
    ELSE ATNConfig__eq__(self, other, same)

\* a.__eq__(b), by the class of a
eq(a, b, same) ==
    IF a.cls = "lexer" THEN LexerATNConfig__eq__(a, b, same)
    ELSE ATNConfig__eq__(a, b, same)

\* hash(a), by the class of a
hash(a) == IF a.cls = "lexer" THEN LexerATNConfig__hash__(a) ELSE ATNConfig__hash__(a)

\* a == b: Python asks the right operand first when its class is a proper
\* subclass of the left one's and overrides __eq__; no __eq__ here returns
\* NotImplemented
PyEq(a, b, same) ==
    IF a.cls = "parser" /\ b.cls = "lexer" THEN LexerATNConfig__eq__(b, a, same)
    ELSE eq(a, b, same)

\* a LexerATNConfig that inherits hashCodeForConfigSet
LexerATNConfig_hashCodeForConfigSet_Inherited(self) ==
    ATNConfig_hashCodeForConfigSet(self)

\* LexerATNConfig.hashCodeForConfigSet: hash(self)
LexerATNConfig_hashCodeForConfigSet(self) == hash(self)

\* LexerATNConfig.equalsForConfigSet: self == other
LexerATNConfig_equalsForConfigSet(self, other, same) == PyEq(self, other, same)

\* a.hashCodeForConfigSet(), by the class of a
hashCodeForConfigSet(a) ==
    IF a.cls = "lexer" THEN LexerATNConfig_hashCodeForConfigSet(a)
    ELSE ATNConfig_hashCodeForConfigSet(a)

\* a.equalsForConfigSet(b), by the class of a
equalsForConfigSet(a, b, same) ==
    IF a.cls = "lexer" THEN LexerATNConfig_equalsForConfigSet(a, b, same)
    ELSE ATNConfig_equalsForConfigSet(a, b, same)

\* The configurations with a state that construction and the simulator's
\* assignments produce
ParserConfigs ==
    {Config("parser", st, alt, ctx, sem, outer, sup, None, FALSE) :
        st \in ATNStates, alt \in {None} \cup Alts, ctx \in {NoContext} \cup Contexts,
        sem \in SemanticContexts, outer \in 0..MaxOuter, sup \in BOOLEAN}

LexerConfigs ==
    {[c EXCEPT !.cls = "lexer", !.lexerActionExecutor = ex,
               !.passedThroughNonGreedyDecision = passed] :
        c \in ParserConfigs, ex \in {None} \cup LexerActionExecutors, passed \in BOOLEAN}

AllConfigs == ParserConfigs \cup LexerConfigs

Pair(a, b, same) == [a |-> a, b |-> b, same |-> same]
NoPair == Pair(NoConfig, NoConfig, FALSE)

Cmp(done, e, se, ha, hb, sha, shb) ==
    [done |-> done, eq |-> e, equalsForConfigSet |-> se, hashA |-> ha, hashB |-> hb,
     hashCodeForConfigSetA |-> sha, hashCodeForConfigSetB |-> shb]
NoCmp == Cmp(FALSE, FALSE, FALSE, <<>>, <<>>, <<>>, <<>>)

\* a.__eq__(b), a.equalsForConfigSet(b), hash and hashCodeForConfigSet of both
Compare ==
    /\ ~cmp.done
    /\ cmp' = Cmp(TRUE, eq(pair.a, pair.b, pair.same),
                  equalsForConfigSet(pair.a, pair.b, pair.same),
                  hash(pair.a), hash(pair.b),
                  hashCodeForConfigSet(pair.a), hashCodeForConfigSet(pair.b))
    /\ UNCHANGED <<treeVars, cfg, call, pair>>

(***************************************************************************)
(* Specifications of the tree                                              *)
(***************************************************************************)
Init ==
    /\ ctxs = <<>>
    /\ terms = <<>>
    /\ last = NoOp
    /\ stack = <<>>
    /\ events = <<>>
    /\ cfg = NoConfig
    /\ call = NoCall
    /\ pair = NoPair
    /\ cmp = NoCmp

\* Contexts constructed with the default arguments; children added, removed
\* and copied; tokens looked up.
Next ==
    \/ NewCtx(None, -1)
    \/ \E n \in CtxIds, child \in CtxIds : AddChild(n, child)
    \/ \E n \in CtxIds, token \in TokenTypes : AddTokenNode(n, token)
    \/ \E n \in CtxIds, token \in TokenTypes : AddErrorNode(n, token)
    \/ \E n \in CtxIds : RemoveLastChild(n)
    \/ \E n \in CtxIds, src \in CtxIds : CopyFrom(n, src)
    \/ \E n \in CtxIds, ttype \in TokenTypes, i \in 0..MaxTerm : GetToken(n, ttype, i)
    \/ \E n \in CtxIds, i \in 0..MaxTerm, ttype \in ChildTypes : GetChild(n, i, ttype)

Spec == Init /\ [][Next]_vars

\* Child sequences of rule, token and error children of two token types,
\* built by appending, and looked up by token type and index.
NextToken ==
    \/ NewCtx(None, -1)
    \/ \E n \in CtxIds, child \in CtxIds : AddChild(n, child)
    \/ \E n \in CtxIds, token \in TokenTypes : AddTokenNode(n, token)
    \/ \E n \in CtxIds, token \in TokenTypes : AddErrorNode(n, token)
    \/ \E n \in CtxIds, ttype \in TokenTypes, i \in 0..MaxTerm : GetToken(n, ttype, i)

SpecToken == Init /\ [][NextToken]_vars

\* Trees built by adding rule, token and error children and by removing the
\* last child, then walked from any of their nodes.  The walker never reads
\* a token, so one token type is enough.
NextWalk ==
    \/ NewCtx(None, -1)
    \/ \E n \in CtxIds, child \in CtxIds : AddChild(n, child)
    \/ \E n \in CtxIds, token \in SpanTokens : AddTokenNode(n, token)
    \/ \E n \in CtxIds, token \in SpanTokens : AddErrorNode(n, token)
    \/ \E n \in CtxIds : RemoveLastChild(n)
    \/ \E ref \in AllRefs : WalkBegin(ref)
    \/ WalkErrorNode
    \/ WalkTerminal
    \/ WalkEnterRule
    \/ WalkChild
    \/ WalkExitRule

SpecWalk == Init /\ [][NextWalk]_vars

\* Trees of plain and interpreter rule contexts, token and error nodes,
\* searched for the rule nodes of a rule index and the tokens of a type.
NextFind ==
    \/ NewCtx(None, -1)
    \/ \E r \in RuleIndexes : NewInterpreterCtx(None, -1, r)
    \/ \E n \in CtxIds, child \in CtxIds : AddChild(n, child)
    \/ \E n \in CtxIds, token \in TokenTypes : AddTokenNode(n, token)
    \/ \E n \in CtxIds, token \in TokenTypes : AddErrorNode(n, token)
    \/ \E n \in CtxIds : RemoveLastChild(n)
    \/ \E tree \in AllRefs, ttype \in TokenTypes : FindAllTokenNodes(tree, ttype)
    \/ \E tree \in AllRefs, r \in RuleIndexes : FindAllRuleNodes(tree, r)

SpecFind == Init /\ [][NextFind]_vars

\* Contexts constructed under a parent with an invoking state, given a start
\* and a stop token, and copied.
NextCopy ==
    \/ \E p \in {None} \cup CtxIds, inv \in InvokingStates : NewCtx(p, inv)
    \/ \E n \in CtxIds, tok \in SpanTokens : SetStart(n, tok)
    \/ \E n \in CtxIds, tok \in SpanTokens : SetStop(n, tok)
    \/ \E n \in CtxIds, child \in CtxIds : AddChild(n, child)
    \/ \E n \in CtxIds, token \in SpanTokens : AddTokenNode(n, token)
    \/ \E n \in CtxIds, token \in SpanTokens : AddErrorNode(n, token)
    \/ \E n \in CtxIds, src \in CtxIds : CopyFrom(n, src)

SpecCopy == Init /\ [][NextCopy]_vars

(***************************************************************************)
(* Specifications of the configurations                                    *)
(***************************************************************************)
StateArgs == {None} \cup ATNStates
AltArgs == {None} \cup Alts
ContextArgs == {NoContext} \cup Contexts
SemanticArgs == {None} \cup SemanticContexts
LexerSemanticArgs == {Omitted, None} \cup SemanticContexts
ExecutorArgs == {None} \cup LexerActionExecutors

\* A configuration is constructed, copied with overrides, assigned to.
NextConfig ==
    \/ \E state \in ATNStates, alt \in AltArgs, context \in ContextArgs,
          semantic \in SemanticArgs :
            NewATNConfig(state, alt, context, semantic)
    \/ \E state \in StateArgs, alt \in AltArgs, context \in ContextArgs,
          semantic \in SemanticArgs :
            CopyATNConfig(state, alt, context, semantic)
    \/ \E state \in ATNStates, alt \in AltArgs, context \in ContextArgs,
          semantic \in LexerSemanticArgs, executor \in ExecutorArgs :
            NewLexerATNConfig(state, alt, context, semantic, executor)
    \/ \E state \in ATNStates, alt \in AltArgs, context \in ContextArgs,
          semantic \in LexerSemanticArgs, executor \in ExecutorArgs :
            CopyLexerATNConfig(state, alt, context, semantic, executor)
    \/ SetPrecedenceFilterSuppressed
    \/ IncReachesIntoOuterContext

SpecConfig == Init /\ [][NextConfig]_vars

\* Two configurations, the same object or not, are compared and hashed.
InitEq ==
    /\ ctxs = <<>>
    /\ terms = <<>>
    /\ last = NoOp
    /\ stack = <<>>
    /\ events = <<>>
    /\ cfg = NoConfig
    /\ call = NoCall
    /\ \E a \in AllConfigs, b \in AllConfigs :
          pair \in {Pair(a, b, FALSE)} \cup (IF a = b THEN {Pair(a, b, TRUE)} ELSE {})
    /\ cmp = NoCmp

NextEq == Compare

SpecEq == InitEq /\ [][NextEq]_vars

(***************************************************************************)
(* Properties of the tree                                                  *)
(***************************************************************************)
Front(q) == SubSeq(q, 1, Len(q) - 1)

\* C1: removeLastChild() never fails; on a context with zero children
\* (children None, or an empty list) it changes nothing; otherwise it
\* removes exactly the child appended last.
C1_RemoveLastChildNeverFails ==
    last.op = "removeLastChild" =>
        /\ last.raised = "no"
        /\ IF getChildren(last.self0) = <<>>
           THEN ctxs[last.self] = last.self0
           ELSE ctxs[last.self] = [last.self0 EXCEPT !.children = Front(@)]

\* The i-th element (from 0) of a sequence of nodes, None when there is none
Nth(q, i) == IF i >= 0 /\ i < Len(q) THEN q[i + 1] ELSE NoneRef

\* the terminal nodes, error nodes included, whose token has type ttype
TerminalsOfType(c, ttype) ==
    LET Match(ref) == isTerminalNode(ref) /\ terms[ref.id].symbol = ttype
    IN SelectSeq(getChildren(c), Match)

\* the terminal nodes that are not error nodes and whose token has type ttype
NonErrorTerminalsOfType(c, ttype) ==
    LET Match(ref) == isTerminalNode(ref) /\ ~isErrorNode(ref)
                      /\ terms[ref.id].symbol = ttype
    IN SelectSeq(getChildren(c), Match)

\* C2 as stated: getToken(T, i) returns the i-th child that is a non-error
\* terminal node of token type T, error nodes and rule children being
\* skipped, and None when there are fewer than i+1 of them.
C2_GetTokenSkipsErrorNodes ==
    last.op = "getToken" =>
        last.result = Nth(NonErrorTerminalsOfType(ctxs[last.self], last.arg), last.idx)

\* C2 amended: getToken(T, i) returns the i-th child, left to right, that is
\* a terminal node (an error node is one) whose token has type T; rule
\* children are skipped; None when there are fewer than i+1 such children.
C2_GetTokenCountsErrorNodes ==
    last.op = "getToken" =>
        last.result = Nth(TerminalsOfType(ctxs[last.self], last.arg), last.idx)

\* a lookup that returned an error node after passing over a rule child
C2_Witness ==
    /\ last.op = "getToken"
    /\ last.result # NoneRef
    /\ isErrorNode(last.result)
    /\ \E k \in DOMAIN ctxs[last.self].children :
          /\ isRuleNode(ctxs[last.self].children[k])
          /\ ctxs[last.self].children[k + 1] = last.result

\* the children of c that getChild(i, ttype) chooses among
ChildrenOfType(c, ttype) ==
    LET Match(ref) == ttype = "None" \/ isinstance(ref, ttype)
    IN SelectSeq(getChildren(c), Match)

\* C11: getChild(i) and getChild(i, typeFilter) fail with an assertion only
\* on a context to which no child was ever added (children None); on an
\* allocated child sequence, an empty one included, they return the i-th
\* child (from 0) of the sequence, or of its children matching the filter,
\* and None when i is out of range.
C11_GetChildFailsOnlyUnallocated ==
    last.op = "getChild" =>
        IF ~ctxs[last.self].allocated
        THEN last.raised = "AssertionError"
        ELSE /\ last.raised = "no"
             /\ last.result = Nth(ChildrenOfType(ctxs[last.self], last.arg), last.idx)

\* what copyFrom leaves in the receiver, the source being as it was before
CopiedFields(n, src0) ==
    /\ ctxs[n].parentCtx = src0.parentCtx
    /\ ctxs[n].invokingState = src0.invokingState
    /\ ctxs[n].start = src0.start
    /\ ctxs[n].stop = src0.stop

CopiedChildren(n, src0) ==
    /\ getChildren(ctxs[n]) = SelectSeq(getChildren(src0), isErrorNode)
    /\ \A ref \in Range(getChildren(ctxs[n])) : terms[ref.id].parentCtx = n

\* C3 as stated: after n.copyFrom(src), n has src's parent, invoking state,
\* start and stop; n's children are exactly src's error nodes in their
\* order, each with parent n; no non-error child of src and no earlier
\* child of n is a child of n.
C3_CopyFromAnySource ==
    last.op = "copyFrom" =>
        /\ CopiedFields(last.self, last.src0)
        /\ CopiedChildren(last.self, last.src0)
        /\ \A ref \in Range(getChildren(last.src0)) :
              ~isErrorNode(ref) => ref \notin Range(getChildren(ctxs[last.self]))
        /\ \A ref \in Range(getChildren(last.self0)) :
              ref \notin Range(getChildren(ctxs[last.self]))

\* C3 amended: the same for a source that is another context than n, where
\* an earlier child of n stays a child of n only if it is one of src's error
\* nodes.
C3_CopyFromOtherSource ==
    (last.op = "copyFrom" /\ last.arg # last.self) =>
        /\ CopiedFields(last.self, last.src0)
        /\ CopiedChildren(last.self, last.src0)
        /\ \A ref \in Range(getChildren(last.src0)) :
              ~isErrorNode(ref) => ref \notin Range(getChildren(ctxs[last.self]))
        /\ \A ref \in Range(getChildren(last.self0)) :
              ref \in Range(getChildren(ctxs[last.self]))
                  => (isErrorNode(ref) /\ ref \in Range(getChildren(last.src0)))

\* a context that had a child of its own took over an error node from a
\* source with a parent, a start token and a non-error child as well
C3_Witness ==
    /\ last.op = "copyFrom"
    /\ last.arg # last.self
    /\ getChildren(last.self0) # <<>>
    /\ getChildren(ctxs[last.self]) # <<>>
    /\ Len(getChildren(last.src0)) > Len(getChildren(ctxs[last.self]))
    /\ last.src0.parentCtx # None
    /\ last.src0.start # None
    /\ last.src0.invokingState # last.self0.invokingState

\* the contexts whose child sequence holds the terminal or error node t
Holders(t) == {n \in CtxIds : TermRef(t) \in Range(getChildren(ctxs[n]))}

\* C12: after any sequence of addTokenNode, addErrorNode, removeLastChild
\* and copyFrom, a terminal or error node is in the child sequence of at
\* most one context, and the parent reference of every terminal or error
\* node in a child sequence is the context that holds the sequence.
C12_ChildrenExclusivelyOwned ==
    \A t \in TermIds :
        /\ Cardinality(Holders(t)) <= 1
        /\ \A n \in Holders(t) : terms[t].parentCtx = n

\* The nodes of a tree in depth-first pre-order: a node before its
\* descendants, the children from left to right
RECURSIVE PreOrder(_), PreOrderOfChildren(_, _)
PreOrder(ref) ==
    <<ref>> \o (IF ref.rule THEN PreOrderOfChildren(getChildren(ctxs[ref.id]), 1)
                ELSE <<>>)

PreOrderOfChildren(children, k) ==
    IF k > Len(children) THEN <<>>
    ELSE PreOrder(children[k]) \o PreOrderOfChildren(children, k + 1)

\* the rule nodes of the tree whose rule index is r, in pre-order
RuleNodesOfIndex(ref, r) ==
    LET Match(node) == node.rule /\ hasRuleIndex(ctxs[node.id])
                       /\ ctxs[node.id].ruleIndex = r
    IN SelectSeq(PreOrder(ref), Match)

\* C13: for every tree and rule index r, findAllRuleNodes(tree, r) returns
\* exactly the rule context nodes of the tree, the root included, whose rule
\* index is r, in depth-first pre-order, also when matching nodes are nested
\* and when nodes have no children.
C13_FindAllRuleNodesPreOrder ==
    last.op = "findAllRuleNodes" =>
        /\ last.raised = "no"
        /\ last.result = RuleNodesOfIndex(last.self, last.arg)

\* The events the listener is to receive for a tree, by the tree's shape
RECURSIVE ExpectedEvents(_), ExpectedOfChildren(_, _)
ExpectedEvents(ref) ==
    IF ~ref.rule
    THEN IF terms[ref.id].error
         THEN <<Event("visitErrorNode", ref)>>
         ELSE <<Event("visitTerminal", ref)>>
    ELSE <<Event("enterEveryRule", ref), Event("enterRule", ref)>>
         \o ExpectedOfChildren(ctxs[ref.id].children, 1)
         \o <<Event("exitRule", ref), Event("exitEveryRule", ref)>>

ExpectedOfChildren(children, k) ==
    IF k > Len(children) THEN <<>>
    ELSE ExpectedEvents(children[k]) \o ExpectedOfChildren(children, k + 1)

\* C4: a walk of a tree sends the listener exactly: visitErrorNode for an
\* error node; visitTerminal for another terminal node; for a rule node
\* enterEveryRule, enterRule, the events of each child from left to right,
\* exitRule, exitEveryRule.
C4_WalkEventsInOrder ==
    Walked => events = ExpectedEvents(last.result)

\* a finished walk of a rule node with a rule child and an error node
C4_Witness ==
    /\ Walked
    /\ last.result.rule
    /\ \E k \in DOMAIN events : events[k].name = "visitErrorNode"
    /\ \E k \in DOMAIN events :
          events[k].name = "enterRule" /\ events[k].node # last.result

IsRule(ref) == ref.rule
IsTerminalOrError(ref) == ~ref.rule
\* a node with zero children: a terminal or error node, or a childless rule node
IsLeaf(ref) == ~ref.rule \/ ctxs[ref.id].children = <<>>

Counted(kind, ref) ==
    CASE kind = "rule" -> IsRule(ref)
      [] kind = "terminal" -> IsTerminalOrError(ref)
      [] kind = "leaf" -> IsLeaf(ref)

\* Counts over the tree below a node (a node counted once for each place it
\* has in the tree)
RECURSIVE CountNodes(_, _), CountInChildren(_, _, _)
CountNodes(ref, kind) ==
    (IF Counted(kind, ref) THEN 1 ELSE 0)
    + (IF ref.rule THEN CountInChildren(ctxs[ref.id].children, 1, kind) ELSE 0)

CountInChildren(children, k, kind) ==
    IF k > Len(children) THEN 0
    ELSE CountNodes(children[k], kind) + CountInChildren(children, k + 1, kind)

CountEvents(names) == Cardinality({k \in DOMAIN events : events[k].name \in names})

\* C5 as stated: enterEveryRule calls = exitEveryRule calls = rule nodes, and
\* visitTerminal plus visitErrorNode calls = nodes with zero children, also
\* when a rule node has no children.
C5_VisitsEqualLeaves ==
    Walked =>
        /\ CountEvents({"enterEveryRule"}) = CountNodes(last.result, "rule")
        /\ CountEvents({"exitEveryRule"}) = CountNodes(last.result, "rule")
        /\ CountEvents({"visitTerminal", "visitErrorNode"}) = CountNodes(last.result, "leaf")

\* C5 amended: enterEveryRule calls = exitEveryRule calls = rule nodes, and
\* visitTerminal plus visitErrorNode calls = terminal and error nodes; a
\* rule node without children is entered and exited and visited as no leaf.
C5_VisitsEqualTerminals ==
    Walked =>
        /\ CountEvents({"enterEveryRule"}) = CountNodes(last.result, "rule")
        /\ CountEvents({"exitEveryRule"}) = CountNodes(last.result, "rule")
        /\ CountEvents({"visitTerminal", "visitErrorNode"})
               = CountNodes(last.result, "terminal")

\* a finished walk of a tree that holds a childless rule node beside a
\* terminal or error node, so that its leaves outnumber its terminals
C5_Witness ==
    /\ Walked
    /\ last.result.rule
    /\ CountNodes(last.result, "leaf") > CountNodes(last.result, "terminal")
    /\ \E k \in DOMAIN events :
          events[k].name \in {"visitTerminal", "visitErrorNode"}

(***************************************************************************)
(* Properties of the configurations                                        *)
(***************************************************************************)
BothOf(cls) == cmp.done /\ pair.a.cls = cls /\ pair.b.cls = cls

\* C6: for all configurations a and b with a state, parser or lexer in any
\* combination, a.__eq__(b) implies hash(a) == hash(b).
C6_EqualImpliesEqualHash ==
    (cmp.done /\ cmp.eq) => cmp.hashA = cmp.hashB

SameStateAltSemantic(a, b) ==
    /\ a.state = b.state
    /\ a.alt = b.alt
    /\ a.semanticContext = b.semanticContext

\* C7: for parser configurations a.equals(b) implies a.equalsForConfigSet(b);
\* and two with the same state, alt and semantic context but value-unequal
\* contexts are set-equal, with equal hashCodeForConfigSet, and not fully
\* equal.
C7_EqualsImpliesSetEqual ==
    BothOf("parser") =>
        /\ cmp.eq => cmp.equalsForConfigSet
        /\ (SameStateAltSemantic(pair.a, pair.b)
              /\ pair.a.context.value # pair.b.context.value)
           => /\ cmp.equalsForConfigSet
              /\ cmp.hashCodeForConfigSetA = cmp.hashCodeForConfigSetB
              /\ ~cmp.eq

\* two parser configurations that differ in the value of the context only,
\* compared
C7_Witness ==
    /\ BothOf("parser")
    /\ pair.a.context.value # pair.b.context.value
    /\ pair.a.context # NoContext
    /\ pair.b.context # NoContext
    /\ [pair.a EXCEPT !.context = pair.b.context] = pair.b
    /\ cmp.equalsForConfigSet
    /\ ~cmp.eq

\* C8: for lexer configurations hashCodeForConfigSet is the hash and
\* equalsForConfigSet is equals; two with the same state, alt, context and
\* semantic context but another lexerActionExecutor, or another
\* passedThroughNonGreedyDecision, are neither fully equal nor set-equal.
C8_LexerReducedKeyIsComplete ==
    BothOf("lexer") =>
        /\ cmp.hashCodeForConfigSetA = cmp.hashA
        /\ cmp.hashCodeForConfigSetB = cmp.hashB
        /\ cmp.equalsForConfigSet = cmp.eq
        /\ (/\ SameStateAltSemantic(pair.a, pair.b)
            /\ pair.a.context.value = pair.b.context.value
            /\ \/ pair.a.lexerActionExecutor # pair.b.lexerActionExecutor
               \/ pair.a.passedThroughNonGreedyDecision
                      # pair.b.passedThroughNonGreedyDecision)
           => (~cmp.eq /\ ~cmp.equalsForConfigSet)

\* two lexer configurations that differ in the lexerActionExecutor only,
\* compared
C8_Witness ==
    /\ BothOf("lexer")
    /\ pair.a.lexerActionExecutor # pair.b.lexerActionExecutor
    /\ [pair.a EXCEPT !.lexerActionExecutor = pair.b.lexerActionExecutor] = pair.b
    /\ ~cmp.eq
    /\ ~cmp.equalsForConfigSet
    /\ cmp.hashA # cmp.hashB

\* C9: a lexer configuration constructed without a source has not passed
\* through a non-greedy decision; one constructed from a source has exactly
\* when the source had or its state is a non-greedy decision state; and once
\* a configuration of a chain of copies has, every later one has.
C9_NonGreedyIsSticky ==
    /\ call.kind = "LexerATNConfig" => ~cfg.passedThroughNonGreedyDecision
    /\ call.kind = "LexerATNConfig copy" =>
          /\ cfg.passedThroughNonGreedyDecision
                = (call.sourcePassed \/ (isDecisionState(cfg.state) /\ nonGreedy(cfg.state)))
          /\ call.chainPassed => cfg.passedThroughNonGreedyDecision

\* a copy into a state that is no non-greedy decision, of a source that had
\* passed through one
C9_Witness ==
    /\ call.kind = "LexerATNConfig copy"
    /\ call.chainPassed
    /\ ~nonGreedy(cfg.state)
    /\ cfg.passedThroughNonGreedyDecision

\* what a field of a copy is to be: the argument, or the source's when the
\* caller gave none
Taken(arg, omitted, fromSource) == IF arg \in omitted THEN fromSource ELSE arg

CopyTakesOmitted(r, c, state, alt, context, semantic) ==
    /\ r.state = Taken(state, {None}, c.state)
    /\ r.alt = Taken(alt, {None}, c.alt)
    /\ r.context = Taken(context, {NoContext}, c.context)
    /\ r.semanticContext = Taken(semantic, {None, Omitted}, c.semanticContext)
    /\ r.reachesIntoOuterContext = c.reachesIntoOuterContext
    /\ r.precedenceFilterSuppressed = c.precedenceFilterSuppressed

\* C10: a configuration copied from a configuration c, parser or lexer, with
\* overrides takes from c every field the caller omits (state, alt, context,
\* semanticContext, reachesIntoOuterContext, precedenceFilterSuppressed and,
\* of a lexer configuration, lexerActionExecutor); semanticContext is NONE
\* when omitted without a source, and is never None.
C10_CopyTakesOmittedFields ==
    /\ cfg # NoConfig =>
          /\ cfg.semanticContext # None
          /\ \A state \in StateArgs, alt \in AltArgs, context \in ContextArgs,
                semantic \in SemanticArgs :
                CopyTakesOmitted(ATNConfig__init__(state, alt, context, semantic, cfg),
                                 cfg, state, alt, context, semantic)
    /\ cfg.cls = "lexer" =>
          \A state \in ATNStates, alt \in AltArgs, context \in ContextArgs,
             semantic \in LexerSemanticArgs, executor \in ExecutorArgs :
             LET r == LexerATNConfig__init__(state, alt, context, semantic, executor, cfg)
             IN /\ CopyTakesOmitted(r, cfg, state, alt, context, semantic)
                /\ r.lexerActionExecutor = Taken(executor, {None}, cfg.lexerActionExecutor)
    /\ call.kind \in {"ATNConfig", "LexerATNConfig"} =>
          \A state \in ATNStates, alt \in AltArgs, context \in ContextArgs :
             /\ ATNConfig__init__(state, alt, context, None, NoConfig).semanticContext
                    = SemanticContext_NONE
             /\ LexerATNConfig__init__(state, alt, context, Omitted, None,
                                       NoConfig).semanticContext = SemanticContext_NONE

\* C14: for every parser configuration a and lexer configuration b with a
\* state, a.__eq__(b) and b.__eq__(a) give the same result, and so do
\* a.equalsForConfigSet(b) and b.equalsForConfigSet(a).
C14_EqualitySymmetricAcrossClasses ==
    (cmp.done /\ pair.a.cls = "parser" /\ pair.b.cls = "lexer") =>
        /\ cmp.eq = eq(pair.b, pair.a, pair.same)
        /\ cmp.equalsForConfigSet = equalsForConfigSet(pair.b, pair.a, pair.same)

====
